---- MODULE Spec2Model ----
(***************************************************************************)
(* A model of src/src/processing/data_filter.py: the DataFilter session    *)
(* (original_df, filtered_df, filter_info), its simple filters, its query  *)
(* builder, its dataset join and clear_filters.                            *)
(*                                                                         *)
(* One action of the model is one call a collaborator makes: one run of    *)
(* render_filter_ui with the widget values of that run, or clear_filters.  *)
(*                                                                         *)
(* Values.  A cell is <<>> (NaN / missing) or <<x>>.  Numbers are          *)
(* integers (a float64 column holds n for n.0); text is a sequence of      *)
(* one-character strings; bool cells hold TRUE / FALSE; datetime cells     *)
(* hold a count of half-days.  A column is [name, dtype, holds]: dtype is  *)
(* the pandas dtype string, holds the kind of the non-missing values       *)
(* ("num", "text", "bool", "time").  A row is [idx, v]: its index label    *)
(* and its cells, aligned with the columns.                                *)
(***************************************************************************)
EXTENDS Integers, Sequences, FiniteSets, TLC

VARIABLES
    datasets,      \* st.session_state['datasets']: name -> dataset
    original_df,   \* self.original_df
    filtered_df,   \* self.filtered_df
    filter_info,   \* self.filter_info
    args,          \* the widget values of the last call
    shown,         \* the generated query the last call displayed (st.code)
    ret            \* what the last call gave its caller

vars == <<datasets, original_df, filtered_df, filter_info, args, shown, ret>>

(***************************************************************************)
(* Bounds of the model.                                                    *)
(***************************************************************************)
\* The most columns one simple-filter run selects, alone and in a session.
MaxSel == 2
SessionSel == 1
\* The most conditions of one query, alone and in a session.
MaxCond == 3
SessionCond == 1
\* The most characters of a typed text.
MaxLen == 3

(***************************************************************************)
(* Values and datasets.                                                    *)
(***************************************************************************)
Range(s) == {s[i] : i \in DOMAIN s}

NaN == <<>>
Cell(x) == <<x>>
isna(c) == Len(c) = 0

Col(n, d, h) == [name |-> n, dtype |-> d, holds |-> h]
Row(i, cells) == [idx |-> i, v |-> cells]
DataFrame(cols, rows) == [cols |-> cols, rows |-> rows]

len(df) == Len(df.rows)
copy(df) == DataFrame(df.cols, df.rows)
\* DataFrame.equals: the same columns, then the same rows.
equals(a, b) == a.cols = b.cols /\ a.rows = b.rows
columns(df) == [i \in DOMAIN df.cols |-> df.cols[i].name]
ColPos(df, col) == CHOOSE i \in DOMAIN df.cols : df.cols[i].name = col
dtype(df, col) == df.cols[ColPos(df, col)].dtype
holds(df, col) == df.cols[ColPos(df, col)].holds
at(df, r, col) == r.v[ColPos(df, col)]
\* The non-missing values of a column.
Present(df, col) == {at(df, r, col)[1] : r \in {q \in Range(df.rows) : ~isna(at(df, q, col))}}
\* Series.unique(): the distinct cells, NaN among them when a value is missing.
unique(df, col) == {at(df, r, col) : r \in Range(df.rows)}
\* df[mask]: the rows the mask keeps, in order, with their index labels.
Keep(df, Mask(_)) == DataFrame(df.cols, SelectSeq(df.rows, Mask))

SetMin(S) == CHOOSE x \in S : \A y \in S : x <= y
SetMax(S) == CHOOSE x \in S : \A y \in S : y <= x
\* Series.min() / Series.max(): missing values skipped, NaN when none is left.
col_min(df, col) == IF Present(df, col) = {} THEN NaN ELSE Cell(SetMin(Present(df, col)))
col_max(df, col) == IF Present(df, col) = {} THEN NaN ELSE Cell(SetMax(Present(df, col)))

\* Comparisons of numbers as IEEE floats: every comparison with NaN is false,
\* and NaN differs from everything, itself included.
ge(a, b) == ~isna(a) /\ ~isna(b) /\ a[1] >= b[1]
le(a, b) == ~isna(a) /\ ~isna(b) /\ a[1] <= b[1]
gt(a, b) == ~isna(a) /\ ~isna(b) /\ a[1] > b[1]
lt(a, b) == ~isna(a) /\ ~isna(b) /\ a[1] < b[1]
eq(a, b) == ~isna(a) /\ ~isna(b) /\ a[1] = b[1]
ne(a, b) == ~eq(a, b)

(***************************************************************************)
(* The datasets the collaborator supplies.                                 *)
(***************************************************************************)
NY == <<"N", "Y">>
LA == <<"L", "A">>
SF == <<"S", "F">>

orders ==
    DataFrame(<<Col("customer_id", "int64", "num"), Col("city", "object", "text")>>,
              <<Row(0, <<Cell(1), Cell(NY)>>),
                Row(1, <<Cell(2), Cell(LA)>>)>>)

customers ==
    DataFrame(<<Col("id", "int64", "num"), Col("city", "object", "text")>>,
              <<Row(0, <<Cell(2), Cell(LA)>>),
                Row(1, <<Cell(4), Cell(SF)>>)>>)

invoices ==
    DataFrame(<<Col("customer", "float64", "num"), Col("amount", "float64", "num")>>,
              <<Row(0, <<Cell(2), Cell(3)>>),
                Row(1, <<Cell(5), Cell(2)>>)>>)

\* A key of dtype interval: astype(float) raises for it.
bins ==
    DataFrame(<<Col("bucket", "interval[int64, right]", "interval")>>,
              <<Row(0, <<Cell(<<0, 2>>)>>),
                Row(1, <<Cell(<<2, 4>>)>>)>>)

archive ==
    DataFrame(<<Col("customer_id", "int64", "num"), Col("city", "object", "text")>>, <<>>)

drafts ==
    DataFrame(<<Col("id", "int64", "num")>>, <<>>)

survey ==
    DataFrame(<<Col("age", "int64", "num"), Col("city", "object", "text"),
                Col("signup", "datetime64[ns]", "time"), Col("vip", "bool", "bool")>>,
              <<Row(0, <<Cell(1), Cell(NY), Cell(2), Cell(TRUE)>>),
                Row(1, <<Cell(2), Cell(LA), Cell(5), Cell(FALSE)>>),
                Row(2, <<Cell(3), Cell(NY), Cell(3), Cell(TRUE)>>)>>)

PoolShop == [n \in {"orders", "customers"} |-> IF n = "orders" THEN orders ELSE customers]
PoolLedger == [n \in {"customers", "invoices"} |->
                  IF n = "customers" THEN customers ELSE invoices]
PoolBins == [n \in {"bins", "invoices"} |-> IF n = "bins" THEN bins ELSE invoices]
PoolEmpty == [n \in {"orders", "archive", "drafts"} |->
                 IF n = "orders" THEN orders ELSE IF n = "archive" THEN archive ELSE drafts]
PoolSolo == [n \in {"survey"} |-> survey]

NoDf == DataFrame(<<>>, <<>>)
NoArgs == [filter_type |-> "None"]

(***************************************************************************)
(* DataFilter.__init__                                                     *)
(***************************************************************************)
FilterInfo(active, type, original_count, filtered_count, filters_applied) ==
    [active |-> active, type |-> type, original_count |-> original_count,
     filtered_count |-> filtered_count, filters_applied |-> filters_applied]

Returned(op, df, applied) == [op |-> op, raised |-> FALSE, df |-> df, applied |-> applied]
Raised(op) == [op |-> op, raised |-> TRUE, df |-> NoDf, applied |-> FALSE]

\* The session just constructed on dataset n of the pool.
Constructed(pool, n) ==
    /\ datasets = pool
    /\ original_df = copy(pool[n])
    /\ filtered_df = copy(pool[n])
    /\ filter_info = FilterInfo(FALSE, "None", len(pool[n]), len(pool[n]), <<>>)
    /\ shown = <<>>
    /\ ret = Returned("init", NoDf, FALSE)

(***************************************************************************)
(* The predicate builders of the simple filters.  Each is given            *)
(* self.original_df, the accumulated dataset df, the column and the values *)
(* w of the column's widgets, and gives [raised, df, col_filtered, detail].*)
(***************************************************************************)
\* The distinct-value count up to which a categorical filter is a multiselect.
MaxCategories == 50

NoDetail == <<>>
Handled(df, col_filtered, detail) ==
    [raised |-> FALSE, df |-> df, col_filtered |-> col_filtered, detail |-> detail]
HandlerRaised == [raised |-> TRUE, df |-> NoDf, col_filtered |-> FALSE, detail |-> NoDetail]

Widget(selected_values, search_term, final_min, final_max, date_range, widget_error) ==
    [selected_values |-> selected_values, search_term |-> search_term,
     final_min |-> final_min, final_max |-> final_max, date_range |-> date_range,
     widget_error |-> widget_error]

\* str.lower() on the letters the datasets hold.
Lower(ch) ==
    CASE ch = "A" -> "a" [] ch = "F" -> "f" [] ch = "L" -> "l"
      [] ch = "N" -> "n" [] ch = "S" -> "s" [] ch = "Y" -> "y" [] OTHER -> ch
lower(s) == [i \in DOMAIN s |-> Lower(s[i])]
Substring(needle, hay) ==
    \E i \in 1..(Len(hay) - Len(needle) + 1) : SubSeq(hay, i, i + Len(needle) - 1) = needle
\* Series.str.contains(term, case=False, na=False) for a term without regular
\* expression metacharacters: a cell that is missing or holds no text gives False.
str_contains(df, r, col, term) ==
    /\ holds(df, col) = "text"
    /\ ~isna(at(df, r, col))
    /\ Substring(lower(term), lower(at(df, r, col)[1]))

\* The categorical filter applied to the original dataset and not to the
\* accumulated one.
_handle_categorical_filter_from_original(self_original_df, df, col, w) ==
    LET unique_values == unique(self_original_df, col)
    IN  IF Cardinality(w.selected_values) < Cardinality(unique_values)
        THEN Handled(Keep(self_original_df,
                          LAMBDA r : at(self_original_df, r, col) \in w.selected_values),
                     TRUE,
                     <<col, "values", Cardinality(w.selected_values),
                       Cardinality(unique_values)>>)
        ELSE Handled(df, FALSE, NoDetail)

_handle_categorical_filter(self_original_df, df, col, w) ==
    LET unique_values == unique(self_original_df, col)
    IN  IF Cardinality(unique_values) <= MaxCategories
        THEN IF Cardinality(w.selected_values) < Cardinality(unique_values)
             THEN Handled(Keep(df, LAMBDA r : at(df, r, col) \in w.selected_values), TRUE,
                          <<col, "values", Cardinality(w.selected_values),
                            Cardinality(unique_values)>>)
             ELSE Handled(df, FALSE, NoDetail)
        ELSE IF w.search_term # <<>>
             THEN Handled(Keep(df, LAMBDA r : str_contains(df, r, col, w.search_term)), TRUE,
                          <<col, "contains", w.search_term, 0>>)
             ELSE Handled(df, FALSE, NoDetail)

\* The numeric filter with the upper end of the range left out.
_handle_numeric_filter_exclusive(self_original_df, df, col, w) ==
    LET min_val == col_min(self_original_df, col)
        max_val == col_max(self_original_df, col)
    IN  IF w.widget_error THEN HandlerRaised
        ELSE IF gt(w.final_min, w.final_max) THEN Handled(df, FALSE, NoDetail)
        ELSE IF ne(w.final_min, min_val) \/ ne(w.final_max, max_val)
             THEN Handled(Keep(df, LAMBDA r : /\ ge(at(df, r, col), w.final_min)
                                             /\ lt(at(df, r, col), w.final_max)),
                          TRUE, <<col, "to", w.final_min, w.final_max>>)
             ELSE Handled(df, FALSE, NoDetail)

_handle_numeric_filter(self_original_df, df, col, w) ==
    LET min_val == col_min(self_original_df, col)
        max_val == col_max(self_original_df, col)
    IN  IF w.widget_error THEN HandlerRaised
        ELSE IF gt(w.final_min, w.final_max) THEN Handled(df, FALSE, NoDetail)
        ELSE IF ne(w.final_min, min_val) \/ ne(w.final_max, max_val)
             THEN Handled(Keep(df, LAMBDA r : /\ ge(at(df, r, col), w.final_min)
                                             /\ le(at(df, r, col), w.final_max)),
                          TRUE, <<col, "to", w.final_min, w.final_max>>)
             ELSE Handled(df, FALSE, NoDetail)

\* Timestamp.date(): the day of a value counted in half-days.
date(c) == IF isna(c) THEN NaN ELSE Cell(c[1] \div 2)

_handle_datetime_filter(self_original_df, df, col, w) ==
    LET min_date == date(col_min(self_original_df, col))
        max_date == date(col_max(self_original_df, col))
    IN  IF w.widget_error THEN HandlerRaised
        ELSE IF Len(w.date_range) = 2
        THEN LET start_date == w.date_range[1]
                 end_date == w.date_range[2]
             IN  IF start_date # min_date \/ end_date # max_date
                 THEN Handled(Keep(df, LAMBDA r : /\ ge(date(at(df, r, col)), start_date)
                                                 /\ le(date(at(df, r, col)), end_date)),
                              TRUE, <<col, "dates", start_date, end_date>>)
                 ELSE Handled(df, FALSE, NoDetail)
        ELSE Handled(df, FALSE, NoDetail)

(***************************************************************************)
(* DataFilter._simple_filters                                              *)
(***************************************************************************)
Result(df, applied, details) ==
    [raised |-> FALSE, df |-> df, applied |-> applied, details |-> details]
Exception == [raised |-> TRUE, df |-> NoDf, applied |-> FALSE, details |-> <<>>]

\* 'datetime' in str(dtype), over the dtype strings of the model.
IsDatetime(d) == d \in {"datetime64[ns]"}

\* One pass of the loop over filter_columns.  s holds the locals: filtered_df,
\* filters_applied, applied_filter_details and, once some branch has assigned
\* them (bound), col_filtered and filter_detail.
RECURSIVE simple_loop(_, _, _, _)
simple_loop(self_original_df, a, i, s) ==
    IF i > Len(a.filter_columns)
    THEN Result(s.filtered_df, s.filters_applied, s.applied_filter_details)
    ELSE LET col == a.filter_columns[i]
             d == dtype(self_original_df, col)
             branch == d \in {"object", "category"} \/ d \in {"int64", "float64"}
                       \/ IsDatetime(d)
             h == IF d \in {"object", "category"}
                  THEN _handle_categorical_filter(self_original_df, s.filtered_df, col,
                                                  a.widgets[col])
                  ELSE IF d \in {"int64", "float64"}
                  THEN _handle_numeric_filter(self_original_df, s.filtered_df, col,
                                              a.widgets[col])
                  ELSE IF IsDatetime(d)
                  THEN _handle_datetime_filter(self_original_df, s.filtered_df, col,
                                               a.widgets[col])
                  ELSE Handled(s.filtered_df, s.col_filtered, s.filter_detail)
         IN  IF h.raised THEN Exception
             \* line 118 reads col_filtered: unbound when no branch has run yet
             ELSE IF ~(branch \/ s.bound) THEN Exception
             ELSE simple_loop(self_original_df, a, i + 1,
                      [filtered_df |-> h.df,
                       filters_applied |-> s.filters_applied \/ h.col_filtered,
                       applied_filter_details |->
                           IF h.col_filtered
                           THEN Append(s.applied_filter_details, h.detail)
                           ELSE s.applied_filter_details,
                       bound |-> TRUE,
                       col_filtered |-> h.col_filtered,
                       filter_detail |-> h.detail])

_simple_filters(self_original_df, a) ==
    IF a.filter_columns = <<>>
    THEN Result(copy(self_original_df), FALSE, <<>>)
    ELSE simple_loop(self_original_df, a, 1,
             [filtered_df |-> copy(self_original_df), filters_applied |-> FALSE,
              applied_filter_details |-> <<>>, bound |-> FALSE,
              col_filtered |-> FALSE, filter_detail |-> NoDetail])

(***************************************************************************)
(* The values the widgets of a simple-filter run can hold.                 *)
(***************************************************************************)
NoWidget == Widget({}, <<>>, NaN, NaN, <<>>, FALSE)

\* st.slider gives a pair lo <= hi within [min_val, max_val]; the two
\* st.number_input of "Manual Input" and "Both" give any two values within it.
\* With no value in the column min_val is NaN: the widget either rejects it or
\* hands it back.
NumericWidgets(self_original_df, col) ==
    LET P == Present(self_original_df, col)
    IN  IF P = {}
        THEN {Widget({}, <<>>, NaN, NaN, <<>>, TRUE), Widget({}, <<>>, NaN, NaN, <<>>, FALSE)}
        ELSE {Widget({}, <<>>, Cell(lo), Cell(hi), <<>>, FALSE) :
                 lo \in SetMin(P)..SetMax(P), hi \in SetMin(P)..SetMax(P)}

CategoricalWidgets(self_original_df, col) ==
    IF Cardinality(unique(self_original_df, col)) <= MaxCategories
    THEN {Widget(S, <<>>, NaN, NaN, <<>>, FALSE) : S \in SUBSET unique(self_original_df, col)}
    ELSE {Widget({}, t, NaN, NaN, <<>>, FALSE) : t \in {<<>>, <<"n">>}}

\* st.date_input gives (start,) while the range is being picked, else
\* (start, end) with start <= end.
DatetimeWidgets(self_original_df, col) ==
    LET P == {x \div 2 : x \in Present(self_original_df, col)}
    IN  IF P = {}
        THEN {Widget({}, <<>>, NaN, NaN, <<>>, TRUE)}
        ELSE {Widget({}, <<>>, NaN, NaN, <<Cell(d)>>, FALSE) : d \in SetMin(P)..SetMax(P)}
             \cup {Widget({}, <<>>, NaN, NaN, <<Cell(d), Cell(e)>>, FALSE) :
                      d \in SetMin(P)..SetMax(P), e \in SetMin(P)..SetMax(P)}

WidgetChoices(self_original_df, col) ==
    LET d == dtype(self_original_df, col)
    IN  IF d \in {"object", "category"} THEN CategoricalWidgets(self_original_df, col)
        ELSE IF d \in {"int64", "float64"} THEN NumericWidgets(self_original_df, col)
        ELSE IF IsDatetime(d) THEN DatetimeWidgets(self_original_df, col)
        ELSE {NoWidget}

RECURSIVE WidgetMaps(_, _)
WidgetMaps(self_original_df, S) ==
    IF S = {} THEN {<<>>}
    ELSE LET c == CHOOSE x \in S : TRUE
         IN  {(c :> v) @@ m : v \in WidgetChoices(self_original_df, c),
                              m \in WidgetMaps(self_original_df, S \ {c})}

\* st.multiselect: the chosen columns, each once, in the order chosen.
Selections(self_original_df, most) ==
    LET names == Range(columns(self_original_df))
    IN  {s \in UNION {[1..n -> names] : n \in 0..most} :
            \A i, j \in DOMAIN s : i # j => s[i] # s[j]}

SimpleArgs(filter_columns, widgets) ==
    [filter_type |-> "Simple Filters", filter_columns |-> filter_columns, widgets |-> widgets]

(***************************************************************************)
(* DataFilter._query_builder: the query compiler.                          *)
(*                                                                         *)
(* query_parts is a sequence of tokens.  A condition fragment is           *)
(* [kind |-> "cond", column, operator, number, literal]: number is the     *)
(* value of a numeric condition, literal the source text of the string     *)
(* literal of a text condition, its two quotes included.  A connective is  *)
(* [kind |-> "logic", operator |-> "and" / "or"].  final_query joins the   *)
(* tokens with blanks.                                                     *)
(***************************************************************************)
\* The most conditions of a query: st.number_input(..., 1, 5, 1).
MaxConditions == 5

SQ == "'"
DQ == "\""
BS == "\\"

\* str.replace(old, new) for a one-character old.
RECURSIVE replace(_, _, _)
replace(s, old, new) ==
    IF s = <<>> THEN <<>>
    ELSE (IF Head(s) = old THEN new ELSE <<Head(s)>>) \o replace(Tail(s), old, new)

\* value.replace("'", "\\'").replace('"', '\\"')
escaped_value(value) == replace(replace(value, SQ, <<BS, SQ>>), DQ, <<BS, DQ>>)

Fragment(column, operator, number, literal) ==
    [kind |-> "cond", column |-> column, operator |-> operator, number |-> number,
     literal |-> literal]
Logic(word) ==
    [kind |-> "logic", column |-> "", operator |-> word, number |-> NaN, literal |-> <<>>]

Condition(column, operator, number, value) ==
    [column |-> column, operator |-> operator, number |-> number, value |-> value]

numeric_cols(df) == {c.name : c \in {x \in Range(df.cols) : x.dtype \in {"int64", "float64"}}}
categorical_cols(df) == {c.name : c \in {x \in Range(df.cols) : x.dtype \in {"object", "category"}}}

\* The conditions with an empty text value emitted with an empty literal.
condition_parts_keeps_empty(self_original_df, c) ==
    IF c.column \in numeric_cols(self_original_df)
    THEN <<Fragment(c.column, c.operator, c.number, <<>>)>>
    ELSE <<Fragment(c.column, c.operator, NaN, <<SQ>> \o escaped_value(c.value) \o <<SQ>>)>>

\* Lines 436-493: what condition c appends to query_parts.
condition_parts(self_original_df, c) ==
    IF c.column \in numeric_cols(self_original_df)
    THEN <<Fragment(c.column, c.operator, c.number, <<>>)>>
    ELSE IF c.value # <<>>
    THEN <<Fragment(c.column, c.operator, NaN, <<SQ>> \o escaped_value(c.value) \o <<SQ>>)>>
    ELSE <<>>

\* Lines 432-503: the loop over the conditions, query_parts so far in parts.
RECURSIVE build_parts(_, _, _, _)
build_parts(self_original_df, a, i, parts) ==
    IF i > a.num_conditions THEN parts
    ELSE LET with_cond == parts \o condition_parts(self_original_df, a.conditions[i])
         IN  build_parts(self_original_df, a, i + 1,
                 IF i < a.num_conditions /\ Len(with_cond) > 0
                 THEN Append(with_cond, Logic(a.logic[i]))
                 ELSE with_cond)

\* Lines 506-511: the trailing connective removed.
strip_trailing(query_parts) ==
    IF query_parts # <<>> /\ query_parts[Len(query_parts)].kind = "logic"
    THEN SubSeq(query_parts, 1, Len(query_parts) - 1)
    ELSE query_parts

(***************************************************************************)
(* DataFrame.query(final_query): the expression is parsed as Python.       *)
(***************************************************************************)
\* The place of the quote that ends the string literal src, whose opening
\* quote is src[1]: a backslash takes the next character with it.  0 when the
\* literal does not end.
RECURSIVE closing(_, _)
closing(src, i) ==
    IF i > Len(src) THEN 0
    ELSE IF src[i] = BS THEN closing(src, i + 2)
    ELSE IF src[i] = SQ THEN i
    ELSE closing(src, i + 1)

\* The text a well-formed literal body denotes.
RECURSIVE unescape(_)
unescape(body) ==
    IF body = <<>> THEN <<>>
    ELSE IF Head(body) = BS /\ Len(body) >= 2
    THEN (IF body[2] \in {SQ, DQ, BS} THEN <<body[2]>> ELSE <<BS, body[2]>>)
         \o unescape(SubSeq(body, 3, Len(body)))
    ELSE <<Head(body)>> \o unescape(Tail(body))

literal_value(src) == unescape(SubSeq(src, 2, Len(src) - 1))

\* A fragment parses when it is a numeric comparison or its literal ends at its
\* last character.  Otherwise text follows the literal: over the characters of
\* the model (letters, quotes, backslash) that text never parses.
fragment_parses(t) == t.literal = <<>> \/ closing(t.literal, 2) = Len(t.literal)

\* The expression parses when fragments and connectives alternate, a fragment
\* first and last, and every fragment parses.
parses(final_query) ==
    /\ Len(final_query) % 2 = 1
    /\ \A i \in DOMAIN final_query :
          IF i % 2 = 1
          THEN final_query[i].kind = "cond" /\ fragment_parses(final_query[i])
          ELSE final_query[i].kind = "logic"

\* One comparison on one row.
eval_fragment(df, r, t) ==
    LET c == at(df, r, t.column)
    IN  IF t.column \in numeric_cols(df)
        THEN CASE t.operator = ">" -> gt(c, t.number)
               [] t.operator = "<" -> lt(c, t.number)
               [] t.operator = ">=" -> ge(c, t.number)
               [] t.operator = "<=" -> le(c, t.number)
               [] t.operator = "==" -> eq(c, t.number)
               [] OTHER -> ne(c, t.number)
        ELSE LET same == /\ holds(df, t.column) = "text"
                         /\ ~isna(c)
                         /\ c[1] = literal_value(t.literal)
             IN  CASE t.operator = "contains" ->
                          str_contains(df, r, t.column, literal_value(t.literal))
                   [] t.operator = "==" -> same
                   [] OTHER -> ~same

\* Python's grammar: or_test: and_test ('or' and_test)*, and_test: comparison
\* ('and' comparison)*.  and_test(q, r, i) evaluates the and_test that starts at
\* token i and gives its value and the place of the token after it.
RECURSIVE and_test(_, _, _, _)
and_test(df, r, q, i) ==
    LET v == eval_fragment(df, r, q[i])
    IN  IF i + 1 <= Len(q) /\ q[i + 1].operator = "and"
        THEN LET rest == and_test(df, r, q, i + 2)
             IN  [value |-> v /\ rest.value, next |-> rest.next]
        ELSE [value |-> v, next |-> i + 1]

\* The expression read from left to right, 'and' and 'or' alike: the value of
\* the tokens i..n.
RECURSIVE left_fold(_, _, _, _, _)
left_fold(df, r, q, i, n) ==
    IF n <= i THEN eval_fragment(df, r, q[i])
    ELSE IF q[n - 1].operator = "and"
    THEN left_fold(df, r, q, i, n - 2) /\ eval_fragment(df, r, q[n])
    ELSE left_fold(df, r, q, i, n - 2) \/ eval_fragment(df, r, q[n])

left_to_right(df, r, q, i) == left_fold(df, r, q, i, Len(q))

RECURSIVE or_test(_, _, _, _)
or_test(df, r, q, i) ==
    LET first == and_test(df, r, q, i)
    IN  IF first.next <= Len(q)
        THEN first.value \/ or_test(df, r, q, first.next + 1)
        ELSE first.value

\* self.original_df.query(final_query): [raised, df].
query(df, final_query) ==
    IF ~parses(final_query) THEN [raised |-> TRUE, df |-> NoDf]
    ELSE [raised |-> FALSE, df |-> Keep(df, LAMBDA r : or_test(df, r, final_query, 1))]

QueryResult(df, applied, details, generated) ==
    [raised |-> FALSE, df |-> df, applied |-> applied, details |-> details,
     shown |-> generated]

\* The query builder without the try of lines 518-525: what the evaluation
\* leaves is returned as the applied result.
_query_builder_unguarded(self_original_df, a) ==
    IF len(self_original_df) = 0 \/ Len(self_original_df.cols) = 0
    THEN QueryResult(copy(self_original_df), FALSE, <<>>, <<>>)
    ELSE LET query_parts == build_parts(self_original_df, a, 1, <<>>)
             final_query == strip_trailing(query_parts)
             answer == query(self_original_df, final_query)
         IN  IF query_parts # <<>> /\ a.apply
             THEN QueryResult(answer.df, TRUE, <<<<"Safe Query", final_query>>>>, final_query)
             ELSE QueryResult(copy(self_original_df), FALSE, <<>>, final_query)

_query_builder(self_original_df, a) ==
    IF len(self_original_df) = 0 \/ Len(self_original_df.cols) = 0
    THEN QueryResult(copy(self_original_df), FALSE, <<>>, <<>>)
    ELSE LET query_parts == build_parts(self_original_df, a, 1, <<>>)
             final_query == strip_trailing(query_parts)
             answer == query(self_original_df, final_query)
         IN  IF query_parts # <<>> /\ a.apply /\ ~answer.raised
             THEN QueryResult(answer.df, TRUE, <<<<"Safe Query", final_query>>>>, final_query)
             ELSE QueryResult(copy(self_original_df), FALSE, <<>>, final_query)

\* Lines 523-525: the query was evaluated, raised, and st.error reports it.
query_error(self_original_df, a) ==
    /\ ~(len(self_original_df) = 0 \/ Len(self_original_df.cols) = 0)
    /\ build_parts(self_original_df, a, 1, <<>>) # <<>>
    /\ a.apply
    /\ query(self_original_df, strip_trailing(build_parts(self_original_df, a, 1, <<>>))).raised

(***************************************************************************)
(* The values the widgets of a query-builder run can hold.                 *)
(***************************************************************************)
NumericOperators == {">", "<", ">=", "<=", "==", "!="}
TextOperators == {"==", "!=", "contains"}
OtherOperators == {"==", "!="}

\* The numbers and the texts typed into the value fields.
TypedNumbers == {Cell(2)}
TypedTexts == {<<>>, LA}

ColumnConditions(self_original_df, col, texts) ==
    IF col \in numeric_cols(self_original_df)
    THEN {Condition(col, o, n, <<>>) : o \in NumericOperators, n \in TypedNumbers}
    ELSE IF col \in categorical_cols(self_original_df)
    THEN {Condition(col, o, NaN, t) : o \in TextOperators, t \in texts}
    ELSE {Condition(col, o, NaN, t) : o \in OtherOperators, t \in texts}

QueryArgs(num_conditions, conditions, logic, apply) ==
    [filter_type |-> "Query Builder", num_conditions |-> num_conditions,
     conditions |-> conditions, logic |-> logic, apply |-> apply]

\* Every setting of the widgets with at most most conditions, each condition
\* among conds.  An empty dataset shows no widget.
QueryInputs(self_original_df, most, conds) ==
    IF len(self_original_df) = 0 \/ Len(self_original_df.cols) = 0
    THEN {QueryArgs(0, <<>>, <<>>, FALSE)}
    ELSE UNION {{QueryArgs(n, cs, ls, b) :
                    cs \in [1..n -> conds], ls \in [1..(n - 1) -> {"and", "or"}],
                    b \in BOOLEAN} : n \in 1..most}

AllConditions(self_original_df, texts) ==
    UNION {ColumnConditions(self_original_df, c, texts) :
              c \in Range(columns(self_original_df))}

(***************************************************************************)
(* DataFilter._join_datasets: the join engine.                             *)
(***************************************************************************)
Digits == <<"0", "1", "2", "3", "4", "5", "6", "7", "8", "9">>

\* str(n) of a natural number.
RECURSIVE str_int(_)
str_int(n) == IF n < 10 THEN <<Digits[n + 1]>> ELSE str_int(n \div 10) \o <<Digits[(n % 10) + 1]>>

\* Series.astype(str), cell by cell: 2 -> '2', 2.0 -> '2.0', NaN -> 'nan'.
str_cell(c, column) ==
    IF isna(c) THEN Cell(<<"n", "a", "n">>)
    ELSE IF column.holds = "text" THEN c
    ELSE IF column.dtype = "float64" THEN Cell(str_int(c[1]) \o <<".", "0">>)
    ELSE Cell(str_int(c[1]))

\* df[col] = df[col].astype(str)
astype_str(df, col) ==
    LET p == ColPos(df, col)
    IN  DataFrame([df.cols EXCEPT ![p] = Col(col, "object", "text")],
                  [i \in DOMAIN df.rows |->
                      Row(df.rows[i].idx,
                          [df.rows[i].v EXCEPT ![p] = str_cell(df.rows[i].v[p], df.cols[p])])])

\* df[col] = df[col].astype(float): the numbers stay, the dtype widens.
astype_float(df, col) ==
    LET p == ColPos(df, col)
    IN  DataFrame([df.cols EXCEPT ![p] = Col(col, "float64", "num")], df.rows)

\* 'int' in dtype and 'float' in dtype, over the dtype strings of the model.
has_int(d) == d \in {"int64", "interval[int64, right]"}
has_float(d) == d \in {"float64"}

\* Series.astype(float) raises TypeError: an interval is no number.
astype_float_raises(df, col) == holds(df, col) = "interval"

\* Lines 210-220: the keys after the auto-fix, [left, right], and whether a
\* conversion raised (line 219: a warning, and the call goes on).
coerce(left_prep, right_prep, left_key, right_key) ==
    LET left_dtype == dtype(left_prep, left_key)
        right_dtype == dtype(right_prep, right_key)
        uncoerced(conv_error) ==
            [left |-> left_prep, right |-> right_prep, conv_error |-> conv_error]
    IN  IF "object" \in {left_dtype, right_dtype}
        THEN [left |-> astype_str(left_prep, left_key),
              right |-> astype_str(right_prep, right_key), conv_error |-> FALSE]
        ELSE IF has_int(left_dtype) /\ has_float(right_dtype)
        THEN IF astype_float_raises(left_prep, left_key) THEN uncoerced(TRUE)
             ELSE [left |-> astype_float(left_prep, left_key), right |-> right_prep,
                   conv_error |-> FALSE]
        ELSE IF has_float(left_dtype) /\ has_int(right_dtype)
        THEN IF astype_float_raises(right_prep, right_key) THEN uncoerced(TRUE)
             ELSE [left |-> left_prep, right |-> astype_float(right_prep, right_key),
                   conv_error |-> FALSE]
        ELSE uncoerced(FALSE)

(***************************************************************************)
(* pd.merge(left, right, left_on, right_on, how, suffixes)                 *)
(***************************************************************************)
\* lib.infer_dtype of a key column.
inferred(df, col) ==
    IF dtype(df, col) = "int64" THEN "integer"
    ELSE IF dtype(df, col) = "float64" THEN "floating"
    ELSE IF len(df) = 0 THEN "empty"
    ELSE "string"

bool_types == {"integer", "mixed-integer", "boolean", "empty"}
string_types == {"string", "unicode", "mixed", "bytes", "empty"}

\* The check of the key dtypes: text keys do not merge with numeric keys.  The
\* check is skipped when exactly one side has no row.
merge_raises(left, right, left_on, right_on) ==
    LET ld == dtype(left, left_on)
        rd == dtype(right, right_on)
        il == inferred(left, left_on)
        ir == inferred(right, right_on)
    IN  /\ ~((len(left) > 0 /\ len(right) = 0) \/ (len(left) = 0 /\ len(right) > 0))
        /\ ld # rd
        /\ (ld = "object") # (rd = "object")
        /\ ~(il \in bool_types /\ ir \in bool_types)
        /\ \/ il \in string_types /\ ir \notin string_types
           \/ ir \in string_types /\ il \notin string_types

RECURSIVE Flatten(_)
Flatten(ss) == IF ss = <<>> THEN <<>> ELSE Head(ss) \o Flatten(Tail(ss))

\* The order of the characters of the model's texts, as their code points.
CodePoints == <<".", "0", "1", "2", "3", "4", "5", "6", "7", "8", "9",
                "A", "F", "L", "N", "S", "Y", "a", "n">>
ord(ch) == CHOOSE i \in DOMAIN CodePoints : CodePoints[i] = ch

RECURSIVE text_le(_, _)
text_le(a, b) ==
    IF a = <<>> THEN TRUE
    ELSE IF b = <<>> THEN FALSE
    ELSE IF Head(a) = Head(b) THEN text_le(Tail(a), Tail(b))
    ELSE ord(Head(a)) < ord(Head(b))

\* The order of two keys of one kind.
key_le(a, b, kind) == IF kind = "text" THEN text_le(a[1], b[1]) ELSE a[1] <= b[1]

\* A stable sort of the entries e (each [key, v]) by key.
RECURSIVE insert_sorted(_, _, _)
insert_sorted(sorted, e, kind) ==
    IF sorted = <<>> THEN <<e>>
    ELSE IF key_le(Head(sorted).key, e.key, kind)
    THEN <<Head(sorted)>> \o insert_sorted(Tail(sorted), e, kind)
    ELSE <<e>> \o sorted

RECURSIVE sort_by_key(_, _)
sort_by_key(es, kind) ==
    IF es = <<>> THEN <<>>
    ELSE insert_sorted(sort_by_key(SubSeq(es, 1, Len(es) - 1), kind), es[Len(es)], kind)

without(s, p) == SubSeq(s, 1, p - 1) \o SubSeq(s, p + 1, Len(s))

merge(left, right, left_on, right_on, how) ==
    LET lp == ColPos(left, left_on)
        rp == ColPos(right, right_on)
        same_key == left_on = right_on
        \* what the keys that occur hold: the check of the key dtypes lets
        \* keys of two kinds through only when one side has no row
        kind == IF len(left) = 0 THEN right.cols[rp].holds ELSE left.cols[lp].holds
        \* the right columns that stay: all, but a key of the same name once
        rcols == IF same_key THEN without(right.cols, rp) ELSE right.cols
        rcells(j) == IF same_key THEN without(right.rows[j].v, rp) ELSE right.rows[j].v
        lnames == {left.cols[i].name : i \in DOMAIN left.cols}
        rnames == {rcols[i].name : i \in DOMAIN rcols}
        key_eq(i, j) == /\ left.cols[lp].holds = right.cols[rp].holds
                        /\ ~isna(left.rows[i].v[lp])
                        /\ ~isna(right.rows[j].v[rp])
                        /\ left.rows[i].v[lp][1] = right.rows[j].v[rp][1]
        rmatches(i) == SelectSeq([j \in DOMAIN right.rows |-> j], LAMBDA j : key_eq(i, j))
        lmatches(j) == SelectSeq([i \in DOMAIN left.rows |-> i], LAMBDA i : key_eq(i, j))
        left_alone == {i \in DOMAIN left.rows : rmatches(i) = <<>>}
        right_alone == {j \in DOMAIN right.rows : lmatches(j) = <<>>}
        \* a missing value enters the left (right) columns
        left_nulls == how \in {"right", "outer"} /\ right_alone # {}
        right_nulls == how \in {"left", "outer"} /\ left_alone # {}
        widened(c, nulls) == IF nulls /\ c.dtype = "int64" THEN "float64" ELSE c.dtype
        suffixed(n, suffix) == IF n \in lnames /\ n \in rnames THEN n \o suffix ELSE n
        key_dtype == IF left.cols[lp].dtype = right.cols[rp].dtype THEN left.cols[lp].dtype
                     ELSE IF left.cols[lp].holds = "num" /\ right.cols[rp].holds = "num"
                     THEN "float64" ELSE "object"
        cols == [i \in DOMAIN left.cols |->
                    IF same_key /\ i = lp THEN Col(left_on, key_dtype, kind)
                    ELSE Col(suffixed(left.cols[i].name, "_left"),
                             widened(left.cols[i], left_nulls), left.cols[i].holds)]
                \o [i \in DOMAIN rcols |->
                       Col(suffixed(rcols[i].name, "_right"),
                           widened(rcols[i], right_nulls), rcols[i].holds)]
        both(i, j) == [key |-> left.rows[i].v[lp], v |-> left.rows[i].v \o rcells(j)]
        only_left(i) == [key |-> left.rows[i].v[lp],
                         v |-> left.rows[i].v \o [k \in DOMAIN rcols |-> NaN]]
        only_right(j) == [key |-> right.rows[j].v[rp],
                          v |-> [k \in DOMAIN left.cols |->
                                    IF same_key /\ k = lp THEN right.rows[j].v[rp] ELSE NaN]
                                \o rcells(j)]
        inner == Flatten([i \in DOMAIN left.rows |->
                             [k \in DOMAIN rmatches(i) |-> both(i, rmatches(i)[k])]])
        left_join == Flatten([i \in DOMAIN left.rows |->
                                 IF rmatches(i) = <<>> THEN <<only_left(i)>>
                                 ELSE [k \in DOMAIN rmatches(i) |-> both(i, rmatches(i)[k])]])
        right_join == Flatten([j \in DOMAIN right.rows |->
                                  IF lmatches(j) = <<>> THEN <<only_right(j)>>
                                  ELSE [k \in DOMAIN lmatches(j) |-> both(lmatches(j)[k], j)]])
        right_rest == Flatten([j \in DOMAIN right.rows |->
                                  IF lmatches(j) = <<>> THEN <<only_right(j)>> ELSE <<>>])
        \* outer: the union of the keys, sorted
        \* keys of two kinds have no order: the rows stay as they were joined
        outer == IF len(left) > 0 /\ len(right) > 0
                    /\ left.cols[lp].holds # right.cols[rp].holds
                 THEN left_join \o right_rest
                 ELSE sort_by_key(left_join \o right_rest, kind)
        entries == CASE how = "inner" -> inner
                     [] how = "left" -> left_join
                     [] how = "right" -> right_join
                     [] OTHER -> outer
    IN  DataFrame(cols, [i \in DOMAIN entries |-> Row(i - 1, entries[i].v)])

JoinArgs(left_dataset, right_dataset, join_type, left_key, right_key, auto_fix, join_button) ==
    [filter_type |-> "Join Datasets", left_dataset |-> left_dataset,
     right_dataset |-> right_dataset, join_type |-> join_type, left_key |-> left_key,
     right_key |-> right_key, auto_fix |-> auto_fix, join_button |-> join_button]

JoinResult(original, df, applied, details) ==
    [raised |-> FALSE, original |-> original, df |-> df, applied |-> applied,
     details |-> details]

\* Lines 164-220: the two datasets as pd.merge is given them.
prepared(pool, a) ==
    LET left_df == copy(pool[a.left_dataset])
        right_df == copy(pool[a.right_dataset])
        compatibility == dtype(left_df, a.left_key) = dtype(right_df, a.right_key)
    IN  IF a.auto_fix /\ ~compatibility
        THEN coerce(copy(left_df), copy(right_df), a.left_key, a.right_key)
        ELSE [left |-> copy(left_df), right |-> copy(right_df), conv_error |-> FALSE]

\* Lines 223-230: joined_df.
joined(pool, a) ==
    merge(prepared(pool, a).left, prepared(pool, a).right, a.left_key, a.right_key,
          a.join_type)

\* The join does not come to line 245: the radio or the button keeps it from
\* running, or an exception is caught at line 249.
join_fails(pool, a) ==
    \/ Cardinality(DOMAIN pool) < 2
    \/ ~a.join_button
    \* pd.merge raises
    \/ merge_raises(prepared(pool, a).left, prepared(pool, a).right, a.left_key, a.right_key)
    \* line 239 divides by max(len(left_df), len(right_df))
    \/ len(pool[a.left_dataset]) = 0 /\ len(pool[a.right_dataset]) = 0

\* The join engine without line 245: the joined dataset is returned and the
\* baseline stays.
_join_datasets_keeps_baseline(self_original_df, pool, a) ==
    IF join_fails(pool, a)
    THEN JoinResult(self_original_df, copy(self_original_df), FALSE, <<>>)
    ELSE JoinResult(self_original_df, copy(joined(pool, a)), TRUE,
                    <<<<"Joined", a.left_dataset, a.right_dataset, a.left_key,
                        a.right_key>>>>)

\* Lines 124-254: [original, df, applied, details], original being
\* self.original_df as the call leaves it.
_join_datasets(self_original_df, pool, a) ==
    IF join_fails(pool, a)
    THEN JoinResult(self_original_df, copy(self_original_df), FALSE, <<>>)
    ELSE JoinResult(copy(joined(pool, a)), copy(joined(pool, a)), TRUE,
                    <<<<"Joined", a.left_dataset, a.right_dataset, a.left_key,
                        a.right_key>>>>)

JoinKinds == {"inner", "left", "right", "outer"}

(***************************************************************************)
(* DataFilter.render_filter_ui.  One call runs the operation filter_type   *)
(* names with the widget values a, then lines 72-87.                       *)
(***************************************************************************)
\* Lines 72-87 with the state written only when a filter was applied.
render_update_when_applied(op, filter_type, a, new_original_df, r, generated) ==
    /\ args' = a
    /\ shown' = generated
    /\ original_df' = new_original_df
    /\ filtered_df' = IF r.applied THEN r.df ELSE filtered_df
    /\ filter_info' = IF r.applied
                      THEN FilterInfo(TRUE, filter_type, len(new_original_df), len(r.df),
                                      r.details)
                      ELSE filter_info
    /\ ret' = IF r.applied /\ len(new_original_df) = 0 THEN Raised(op)
              ELSE Returned(op, r.df, r.applied)
    /\ UNCHANGED datasets

\* Lines 72-87 with original_count read from self.filtered_df as the call
\* found it.
render_update_stale_count(op, filter_type, a, new_original_df, r, generated) ==
    /\ args' = a
    /\ shown' = generated
    /\ original_df' = new_original_df
    /\ filtered_df' = r.df
    /\ filter_info' = FilterInfo(r.applied, filter_type, len(filtered_df), len(r.df),
                                 r.details)
    /\ ret' = IF r.applied /\ len(new_original_df) = 0 THEN Raised(op)
              ELSE Returned(op, r.df, r.applied)
    /\ UNCHANGED datasets

\* Lines 72-87, the operation having given r and left new_original_df in
\* self.original_df.
render_update(op, filter_type, a, new_original_df, r, generated) ==
    /\ args' = a
    /\ shown' = generated
    /\ original_df' = new_original_df
    /\ filtered_df' = r.df
    /\ filter_info' = FilterInfo(r.applied, filter_type, len(new_original_df), len(r.df),
                                 r.details)
    \* line 84 divides by len(self.original_df) when a filter was applied
    /\ ret' = IF r.applied /\ len(new_original_df) = 0 THEN Raised(op)
              ELSE Returned(op, r.df, r.applied)
    /\ UNCHANGED datasets

\* The operation raised: the call ends before line 72.
render_raised(op, a) ==
    /\ args' = a
    /\ shown' = <<>>
    /\ ret' = Raised(op)
    /\ UNCHANGED <<datasets, original_df, filtered_df, filter_info>>

\* The simple filters run on the filtered dataset the call finds.
run_simple_accumulating(a) ==
    LET r == _simple_filters(filtered_df, a)
    IN  IF r.raised THEN render_raised("simple", a)
        ELSE render_update("simple", "Simple Filters", a, original_df, r, <<>>)

run_simple(a) ==
    LET r == _simple_filters(original_df, a)
    IN  IF r.raised THEN render_raised("simple", a)
        ELSE render_update("simple", "Simple Filters", a, original_df, r, <<>>)

run_query(a) ==
    LET r == _query_builder(original_df, a)
    IN  render_update("query", "Query Builder", a, original_df, r, r.shown)

run_join(a) ==
    LET r == _join_datasets(original_df, datasets, a)
    IN  render_update("join", "Join Datasets", a, r.original, r, <<>>)

(***************************************************************************)
(* The session: any call after any call.                                   *)
(***************************************************************************)
SimpleFilters ==
    \E s \in Selections(original_df, SessionSel) :
        \E w \in WidgetMaps(original_df, Range(s)) :
            run_simple(SimpleArgs(s, w))

QueryBuilder ==
    \E a \in QueryInputs(original_df, SessionCond, AllConditions(original_df, TypedTexts)) :
        run_query(a)

\* The radio offers the join when the pool holds more than one dataset.
JoinDatasets ==
    /\ Cardinality(DOMAIN datasets) > 1
    /\ \E l \in DOMAIN datasets :
          \E r \in DOMAIN datasets \ {l} :
              \E lk \in Range(columns(datasets[l])), rk \in Range(columns(datasets[r])),
                 h \in JoinKinds, fix \in BOOLEAN, b \in BOOLEAN :
                  run_join(JoinArgs(l, r, h, lk, rk, fix, b))

\* clear_filters without line 553: the filtered dataset stays.
clear_filters_keeps_filtered ==
    /\ filtered_df' = filtered_df
    /\ filter_info' = FilterInfo(FALSE, "None", len(original_df), len(original_df), <<>>)
    /\ ret' = Returned("clear", copy(copy(original_df)), FALSE)
    /\ args' = NoArgs
    /\ shown' = <<>>
    /\ UNCHANGED <<datasets, original_df>>

\* clear_filters with the counts of the metadata left as they were.
clear_filters_stale_counts ==
    /\ filtered_df' = copy(original_df)
    /\ filter_info' = [filter_info EXCEPT !.active = FALSE, !.type = "None",
                                          !.filters_applied = <<>>]
    /\ ret' = Returned("clear", copy(copy(original_df)), FALSE)
    /\ args' = NoArgs
    /\ shown' = <<>>
    /\ UNCHANGED <<datasets, original_df>>

\* Lines 551-561.
clear_filters ==
    /\ filtered_df' = copy(original_df)
    /\ filter_info' = FilterInfo(FALSE, "None", len(original_df), len(original_df), <<>>)
    /\ ret' = Returned("clear", copy(copy(original_df)), FALSE)
    /\ args' = NoArgs
    /\ shown' = <<>>
    /\ UNCHANGED <<datasets, original_df>>

Init ==
    /\ \E n \in DOMAIN PoolShop : Constructed(PoolShop, n)
    /\ args = NoArgs

Next ==
    \/ SimpleFilters
    \/ QueryBuilder
    \/ JoinDatasets
    \/ clear_filters

Spec == Init /\ [][Next]_vars

(***************************************************************************)
(* One join on a fresh session, over every setting of the join's widgets   *)
(* on every pool.                                                          *)
(***************************************************************************)
InitJoin ==
    /\ \E pool \in {PoolShop, PoolLedger, PoolBins, PoolEmpty} :
          /\ \E n \in DOMAIN pool : Constructed(pool, n)
          /\ \E l \in DOMAIN pool :
                \E r \in DOMAIN pool \ {l} :
                    \E lk \in Range(columns(pool[l])), rk \in Range(columns(pool[r])),
                       h \in JoinKinds, fix \in BOOLEAN, b \in BOOLEAN :
                        args = JoinArgs(l, r, h, lk, rk, fix, b)

ApplyJoin == ret.op = "init" /\ run_join(args)

NextJoin == ApplyJoin

SpecJoin == InitJoin /\ [][NextJoin]_vars

(***************************************************************************)
(* One simple-filter run on a fresh session, over every setting of the     *)
(* widgets of at most MaxSel columns.                                      *)
(***************************************************************************)
InitFilter ==
    /\ Constructed(PoolSolo, "survey")
    /\ \E s \in Selections(survey, MaxSel) :
          \E w \in WidgetMaps(survey, Range(s)) : args = SimpleArgs(s, w)

ApplySimple == ret.op = "init" /\ run_simple(args)

NextFilter == ApplySimple

SpecFilter == InitFilter /\ [][NextFilter]_vars

(***************************************************************************)
(* One query run on a fresh session, over every query of at most MaxCond   *)
(* conditions, each a comparison that holds of the first row, of the       *)
(* second, of both or of none, or a text comparison with an empty value.   *)
(***************************************************************************)
QueryConditions ==
    {Condition("id", "==", Cell(2), <<>>), Condition("id", ">", Cell(2), <<>>),
     Condition("id", ">=", Cell(2), <<>>), Condition("id", "<", Cell(2), <<>>),
     Condition("city", "==", NaN, LA), Condition("city", "!=", NaN, LA),
     Condition("city", "contains", NaN, LA), Condition("city", "==", NaN, <<>>)}

InitQuery ==
    /\ Constructed(PoolShop, "customers")
    /\ \E n \in 1..MaxCond :
          \E cs \in [1..n -> QueryConditions], ls \in [1..(n - 1) -> {"and", "or"}],
             b \in BOOLEAN :
              args = QueryArgs(n, cs, ls, b)

ApplyQuery == ret.op = "init" /\ run_query(args)

NextQuery == ApplyQuery

SpecQuery == InitQuery /\ [][NextQuery]_vars

(***************************************************************************)
(* The query compiler over every query of at most MaxConditions            *)
(* conditions, each a numeric comparison, a text comparison or a text      *)
(* comparison with an empty value.                                         *)
(***************************************************************************)
CompileConditions ==
    {Condition("id", ">", Cell(2), <<>>), Condition("city", "==", NaN, LA),
     Condition("city", "==", NaN, <<>>)}

InitCompile ==
    /\ Constructed(PoolShop, "customers")
    /\ args \in QueryInputs(customers, MaxConditions, CompileConditions)

NextCompile == ApplyQuery

SpecCompile == InitCompile /\ [][NextCompile]_vars

(***************************************************************************)
(* The query compiler over every typed text of at most MaxLen characters.  *)
(***************************************************************************)
TypedCharacters == {"a", SQ, DQ, BS}
Texts(most) == UNION {[1..n -> TypedCharacters] : n \in 0..most}

InitEscape ==
    /\ Constructed(PoolShop, "customers")
    /\ \E o \in TextOperators, v \in Texts(MaxLen) :
          args = QueryArgs(1, <<Condition("city", o, NaN, v)>>, <<>>, TRUE)

NextEscape == ApplyQuery

SpecEscape == InitEscape /\ [][NextEscape]_vars

(***************************************************************************)
(* Properties.                                                             *)
(***************************************************************************)
\* The baseline is the result of a join: it is none of the pool's datasets.
Rebased == \A n \in DOMAIN datasets : ~equals(original_df, datasets[n])

RowSet(df) == {df.rows[i] : i \in DOMAIN df.rows}

\* C1: whatever came before, clear_filters returns a dataset equal to the
\* current original dataset, makes the filtered dataset equal to it, and leaves
\* the metadata inactive, without descriptions, both counts being the number of
\* rows of the original dataset.
C1_ResetRestoresOriginal ==
    ret.op = "clear" =>
        /\ ~ret.raised
        /\ equals(ret.df, original_df)
        /\ equals(filtered_df, original_df)
        /\ filter_info.active = FALSE
        /\ filter_info.filters_applied = <<>>
        /\ filter_info.original_count = len(original_df)
        /\ filter_info.filtered_count = len(original_df)

\* A reset of a session whose baseline a join has replaced.
C1_Witness == ret.op = "clear" /\ Rebased /\ len(original_df) > 0

\* C2: a join that succeeds makes its result the original dataset (the
\* returned dataset, when the call returns, equals it), and every later simple
\* filter, query and reset leaves the original dataset alone and computes its
\* result from it.
C2_JoinReplacesOriginal ==
    [][/\ (ret'.op = "join" /\ filter_info'.active) =>
              /\ equals(original_df', joined(datasets, args'))
              /\ equals(filtered_df', original_df')
              /\ (~ret'.raised => equals(ret'.df, original_df'))
       /\ ret'.op = "simple" =>
              /\ original_df' = original_df
              /\ LET r == _simple_filters(original_df, args')
                 IN  ~r.raised => /\ filtered_df' = r.df
                                  /\ (~ret'.raised => ret'.df = r.df)
       /\ ret'.op = "query" =>
              /\ original_df' = original_df
              /\ filtered_df' = _query_builder(original_df, args').df
       /\ ret'.op = "clear" =>
              /\ original_df' = original_df
              /\ equals(filtered_df', original_df)
              /\ equals(ret'.df, original_df)]_vars

\* A filter that removes rows from a baseline that a join has made.
C2_Witness ==
    /\ ret.op \in {"simple", "query"}
    /\ filter_info.active
    /\ Rebased
    /\ len(filtered_df) < len(original_df)

\* The step is a join that was asked for and failed.
JoinFailedStep == ret'.op = "join" /\ args'.join_button /\ ~ret'.applied /\ ~ret'.raised

\* C3, as amended: a join that fails leaves the original dataset as it was,
\* and resets the rest: the filtered dataset becomes a copy of the original
\* dataset and the metadata become inactive, of kind "Join Datasets", both
\* counts the number of rows of the original dataset, without descriptions.
C3_JoinFailureKeepsOriginal ==
    [][JoinFailedStep =>
          /\ original_df' = original_df
          /\ equals(filtered_df', original_df)
          /\ filter_info' = FilterInfo(FALSE, "Join Datasets", len(original_df),
                                       len(original_df), <<>>)]_vars

\* A join on a text key and a number key, the auto-fix declined, has failed.
C3_Witness ==
    /\ ret.op = "join"
    /\ args.join_button
    /\ ~args.auto_fix
    /\ merge_raises(prepared(datasets, args).left, prepared(datasets, args).right,
                    args.left_key, args.right_key)
    /\ ~filter_info.active
    /\ filter_info.type = "Join Datasets"

\* C3, as stated: a join that fails leaves the original dataset, the filtered
\* dataset and the metadata as they were.
C3_JoinFailureChangesNothing ==
    [][JoinFailedStep => UNCHANGED <<original_df, filtered_df, filter_info>>]_vars

\* The key columns of the join asked for are of two dtypes.
KeyDtypesDiffer ==
    dtype(datasets[args.left_dataset], args.left_key)
        # dtype(datasets[args.right_dataset], args.right_key)

\* C4: a join asked for on key columns of two dtypes, the auto-fix off, is an
\* error: it returns applied = False and the original dataset stays one of the
\* pool's datasets.
C4_MismatchWithoutAutoFixIsAnError ==
    (ret.op = "join" /\ args.join_button /\ ~args.auto_fix /\ KeyDtypesDiffer) =>
        /\ ~ret.raised
        /\ ~ret.applied
        /\ ~filter_info.active
        /\ ~Rebased

\* A join on an int64 key and a float64 key, the auto-fix off, has been adopted.
C4_Witness ==
    /\ ret.op = "join"
    /\ args.join_button
    /\ ~args.auto_fix
    /\ {dtype(datasets[args.left_dataset], args.left_key),
        dtype(datasets[args.right_dataset], args.right_key)} = {"int64", "float64"}
    /\ ret.applied
    /\ Rebased

\* C5: a join whose merge succeeds returns (dataset, applied = True) and no
\* exception leaves render_filter_ui, also when the result or both inputs
\* have no row.
C5_JoinIsTotal ==
    (/\ ret.op = "join"
     /\ args.join_button
     /\ ~merge_raises(prepared(datasets, args).left, prepared(datasets, args).right,
                      args.left_key, args.right_key)) =>
        /\ ~ret.raised
        /\ ret.applied

\* A join without a matching key has been adopted and the call has raised.
C5_Witness ==
    /\ ret.op = "join"
    /\ ret.raised
    /\ filter_info.active
    /\ len(original_df) = 0
    /\ len(datasets[args.left_dataset]) > 0
    /\ len(datasets[args.right_dataset]) > 0

\* The dtypes the simple filters have a predicate builder for.
Filterable(d) == d \in {"object", "category", "int64", "float64"} \/ IsDatetime(d)

\* C6: the simple filters return for every ordered selection of columns, a
\* column of another dtype contributes no filter, and no column has more than
\* one description.
C6_SimpleFiltersTotal ==
    ret.op = "simple" =>
        /\ ~ret.raised
        /\ \A i \in DOMAIN filter_info.filters_applied :
              /\ \E k \in DOMAIN args.filter_columns :
                    /\ args.filter_columns[k] = filter_info.filters_applied[i][1]
                    /\ Filterable(dtype(original_df, args.filter_columns[k]))
              /\ \A j \in DOMAIN filter_info.filters_applied :
                    filter_info.filters_applied[i][1] = filter_info.filters_applied[j][1]
                        => i = j

\* A boolean column was selected first and the call has raised.
C6_Witness ==
    /\ ret.op = "simple"
    /\ ret.raised
    /\ Len(args.filter_columns) > 0
    /\ dtype(original_df, args.filter_columns[1]) = "bool"

\* Condition fragments and connectives alternate in q, a fragment first and
\* last.
Alternates(q) ==
    /\ Len(q) % 2 = 1
    /\ \A i \in DOMAIN q : q[i].kind = (IF i % 2 = 1 THEN "cond" ELSE "logic")

\* C7: whichever text values are empty, the assembled expression is empty or
\* alternates condition fragment and connective, a fragment first and last.
C7_NoDanglingConnective ==
    ret.op = "query" => (shown = <<>> \/ Alternates(shown))

\* An empty value in the middle has left two connectives side by side.
C7_Witness ==
    /\ ret.op = "query"
    /\ \E i \in DOMAIN shown :
          i < Len(shown) /\ shown[i].kind = "logic" /\ shown[i + 1].kind = "logic"

\* The fragments of q are at the odd places.  A group is a longest run of
\* fragments joined by 'and'; it starts at s.
Fragments(q) == {i \in DOMAIN q : i % 2 = 1}
GroupStart(q, s) == s = 1 \/ q[s - 1].operator = "or"
InGroup(q, s, p) == p >= s /\ \A k \in (s + 1)..(p - 1) : k % 2 = 0 => q[k].operator = "and"

\* Row r satisfies every fragment of some group of q.
SatisfiesSomeGroup(df, r, q) ==
    \E s \in Fragments(q) :
        /\ GroupStart(q, s)
        /\ \A p \in Fragments(q) : InGroup(q, s, p) => eval_fragment(df, r, q[p])

\* C8, as amended: 'and' binds tighter than 'or'.  An expression that is
\* applied and parses keeps exactly the rows of the original dataset that
\* satisfy every condition of some run of conditions joined by 'and'; any
\* other query keeps the original dataset and is not applied.
C8_AndBindsTighter ==
    ret.op = "query" =>
        IF args.apply /\ shown # <<>> /\ parses(shown)
        THEN /\ filter_info.active
             /\ filtered_df = Keep(original_df,
                                   LAMBDA r : SatisfiesSomeGroup(original_df, r, shown))
        ELSE /\ ~filter_info.active
             /\ equals(filtered_df, original_df)

\* 'c1 or c2 and c3' has kept a row that (c1 or c2) and c3 does not hold of.
C8_Witness ==
    /\ ret.op = "query"
    /\ filter_info.active
    /\ Len(shown) = 5
    /\ shown[2].operator = "or"
    /\ shown[4].operator = "and"
    /\ \E i \in DOMAIN filtered_df.rows :
          ~left_to_right(original_df, filtered_df.rows[i], shown, 1)

\* C8, as stated: the rows kept are the rows of the original dataset that
\* satisfy ((c1 k1 c2) k2 c3) ..., read from left to right.
C8_LeftToRight ==
    (ret.op = "query" /\ filter_info.active) =>
        filtered_df = Keep(original_df, LAMBDA r : left_to_right(original_df, r, shown, 1))

\* C9: the literal of a text condition ends at its last character: the one
\* quote that is not escaped is the closing quote.
C9_ValueStaysInLiteral ==
    (ret.op = "query" /\ shown # <<>>) =>
        closing(shown[1].literal, 2) = Len(shown[1].literal)

\* A typed backslash has made the literal end before its last character.
C9_Witness ==
    /\ ret.op = "query"
    /\ shown # <<>>
    /\ BS \in Range(args.conditions[1].value)
    /\ closing(shown[1].literal, 2) \in 2..(Len(shown[1].literal) - 1)

\* C10: after a simple filter or a query, filtered_count <= original_count
\* and the rows of the filtered dataset are rows of the original dataset.
C10_FilteredWithinOriginal ==
    ret.op \in {"simple", "query"} =>
        /\ filter_info.filtered_count <= filter_info.original_count
        /\ filter_info.filtered_count = len(filtered_df)
        /\ filter_info.original_count = len(original_df)
        /\ filtered_df.cols = original_df.cols
        /\ RowSet(filtered_df) \subseteq RowSet(original_df)

\* A filter after a join has kept some rows and dropped others.
C10_Witness ==
    /\ ret.op \in {"simple", "query"}
    /\ filter_info.active
    /\ Rebased
    /\ 0 < len(filtered_df)
    /\ len(filtered_df) < len(original_df)

\* The simple-filter run a without its last column, and what it gives.
LastColumn(a) == a.filter_columns[Len(a.filter_columns)]
Prefix(a) ==
    SimpleArgs(SubSeq(a.filter_columns, 1, Len(a.filter_columns) - 1), a.widgets)

\* The last column selected is col-kind d and the columns before it gave a
\* result.
LastIs(kinds) ==
    /\ ret.op = "simple"
    /\ Len(args.filter_columns) > 0
    /\ dtype(original_df, LastColumn(args)) \in kinds
    /\ ~_simple_filters(original_df, Prefix(args)).raised

\* C11: a numeric filter with final_min <= final_max on the range [min, max]
\* of the original column gives the accumulated dataset back, not applied; on
\* any other range it is applied and keeps exactly the rows of the accumulated
\* dataset with final_min <= value <= final_max.
C11_NumericRange ==
    LastIs({"int64", "float64"}) =>
        LET col == LastColumn(args)
            w == args.widgets[col]
            before == _simple_filters(original_df, Prefix(args))
            values == Present(original_df, col)
        IN  (values # {} /\ ~isna(w.final_min) /\ ~isna(w.final_max)
             /\ w.final_min[1] <= w.final_max[1]) =>
                IF w.final_min[1] = SetMin(values) /\ w.final_max[1] = SetMax(values)
                THEN /\ ~ret.raised
                     /\ filtered_df = before.df
                     /\ filter_info.active = before.applied
                     /\ filter_info.filters_applied = before.details
                ELSE /\ ~ret.raised
                     /\ filter_info.active
                     /\ filtered_df =
                            Keep(before.df,
                                 LAMBDA r : /\ ~isna(at(before.df, r, col))
                                            /\ w.final_min[1] <= at(before.df, r, col)[1]
                                            /\ at(before.df, r, col)[1] <= w.final_max[1])
                     /\ filter_info.filters_applied =
                            Append(before.details, <<col, "to", w.final_min, w.final_max>>)

\* A range that ends at a value of the column has kept the row with that
\* value and dropped another, after a filter on the column before.
C11_Witness ==
    /\ LastIs({"int64", "float64"})
    /\ Len(args.filter_columns) = 2
    /\ _simple_filters(original_df, Prefix(args)).applied
    /\ \E i \in DOMAIN filtered_df.rows :
          at(filtered_df, filtered_df.rows[i], LastColumn(args))
              = args.widgets[LastColumn(args)].final_max
    /\ 0 < len(filtered_df)
    /\ len(filtered_df) < len(_simple_filters(original_df, Prefix(args)).df)

\* The simple-filter run a without the column selected k-th.
Without(a, k) ==
    SimpleArgs(SubSeq(a.filter_columns, 1, k - 1)
                   \o SubSeq(a.filter_columns, k + 1, Len(a.filter_columns)),
               a.widgets)

\* The column selected k-th is numeric and its range has final_min > final_max.
InvalidRange(a, k) ==
    /\ dtype(original_df, a.filter_columns[k]) \in {"int64", "float64"}
    /\ gt(a.widgets[a.filter_columns[k]].final_min, a.widgets[a.filter_columns[k]].final_max)

\* C12: a numeric column whose range has final_min > final_max adds no filter
\* and no description, and the run gives what it gives without that column:
\* the same outcome, dataset, applied flag and descriptions.
C12_InvalidRangeBlocksOnlyItself ==
    ret.op = "simple" =>
        \A k \in DOMAIN args.filter_columns :
            InvalidRange(args, k) =>
                _simple_filters(original_df, args)
                    = _simple_filters(original_df, Without(args, k))

\* A run of an invalid range and then a boolean column has returned, while the
\* boolean column alone raises.
C12_Witness ==
    /\ ret.op = "simple"
    /\ ~ret.raised
    /\ Len(args.filter_columns) = 2
    /\ InvalidRange(args, 1)
    /\ _simple_filters(original_df, Without(args, 1)).raised

\* C13: a categorical filter on a column of at most 50 distinct values gives
\* the accumulated dataset back, not applied, when every distinct value is
\* selected; with a strict subset selected it is applied and keeps exactly the
\* rows of the accumulated dataset whose value is in the subset.
C13_CategoricalSubset ==
    LastIs({"object", "category"}) =>
        LET col == LastColumn(args)
            selected == args.widgets[col].selected_values
            before == _simple_filters(original_df, Prefix(args))
            distinct == {at(original_df, original_df.rows[i], col) :
                            i \in DOMAIN original_df.rows}
        IN  (Cardinality(distinct) <= 50 /\ selected \subseteq distinct) =>
                IF selected = distinct
                THEN /\ ~ret.raised
                     /\ filtered_df = before.df
                     /\ filter_info.active = before.applied
                     /\ filter_info.filters_applied = before.details
                ELSE /\ ~ret.raised
                     /\ filter_info.active
                     /\ filtered_df.cols = before.df.cols
                     /\ filtered_df.rows =
                            SelectSeq(before.df.rows,
                                      LAMBDA r : at(before.df, r, col) \in selected)
                     /\ filter_info.filters_applied =
                            Append(before.details,
                                   <<col, "values", Cardinality(selected),
                                     Cardinality(distinct)>>)

\* A strict subset of the values has kept a row and dropped another, of a
\* dataset that the filter of the column before had already made smaller.
C13_Witness ==
    /\ LastIs({"object", "category"})
    /\ Len(args.filter_columns) = 2
    /\ len(_simple_filters(original_df, Prefix(args)).df) < len(original_df)
    /\ 0 < len(filtered_df)
    /\ len(filtered_df) < len(_simple_filters(original_df, Prefix(args)).df)

\* Every condition of the query a is a text condition with an empty value.
AllDropped(a) ==
    \A i \in 1..a.num_conditions :
        /\ a.conditions[i].column \notin numeric_cols(original_df)
        /\ a.conditions[i].value = <<>>

\* C14: when every condition is dropped for its empty value, no expression is
\* assembled, no error is reported, and the call returns a copy of the original
\* dataset, not applied, without descriptions.
C14_AllDroppedIsNoFilter ==
    (ret.op = "query" /\ AllDropped(args)) =>
        /\ shown = <<>>
        /\ ~query_error(original_df, args)
        /\ ~ret.raised
        /\ ~ret.applied
        /\ equals(ret.df, original_df)
        /\ equals(filtered_df, original_df)
        /\ ~filter_info.active
        /\ filter_info.filters_applied = <<>>

\* A query of several conditions, each with an empty value, was applied for.
C14_Witness ==
    /\ ret.op = "query"
    /\ AllDropped(args)
    /\ args.num_conditions >= 3
    /\ args.apply

\* C15: when the evaluation of the assembled expression fails, the call still
\* returns: a dataset equal to the original one, not applied; the original
\* dataset is the one the session was constructed with, the metadata are not
\* active and filtered_count = original_count.
C15_QueryFailureIsCaught ==
    (ret.op = "query" /\ query_error(original_df, args)) =>
        /\ ~ret.raised
        /\ ~ret.applied
        /\ equals(ret.df, original_df)
        /\ equals(original_df, customers)
        /\ equals(filtered_df, original_df)
        /\ ~filter_info.active
        /\ filter_info.filtered_count = filter_info.original_count
        /\ filter_info.original_count = len(customers)

\* An expression that does not parse was applied for.
C15_Witness ==
    /\ ret.op = "query"
    /\ query_error(original_df, args)
    /\ shown # <<>>
    /\ ~parses(shown)

\* The dtypes of the two keys of the join asked for, in the pool and as
\* pd.merge is given them.
LeftDtype == dtype(datasets[args.left_dataset], args.left_key)
RightDtype == dtype(datasets[args.right_dataset], args.right_key)
LeftGiven == dtype(prepared(datasets, args).left, args.left_key)
RightGiven == dtype(prepared(datasets, args).right, args.right_key)

\* The join was asked for with the auto-fix on keys of two dtypes.
AutoFixed == ret.op = "join" /\ args.join_button /\ args.auto_fix /\ KeyDtypesDiffer

\* C16: with the auto-fix on keys of two dtypes, both keys become text when
\* either is text, else an integer key becomes floating-point against a
\* floating-point key; and when the coercion fails the join is not carried
\* out on the keys as they are: nothing is adopted.
C16_CoercionOrNoJoin ==
    AutoFixed =>
        /\ "object" \in {LeftDtype, RightDtype} =>
               LeftGiven = "object" /\ RightGiven = "object"
        /\ {LeftDtype, RightDtype} = {"int64", "float64"} =>
               LeftGiven = "float64" /\ RightGiven = "float64"
        /\ prepared(datasets, args).conv_error =>
               /\ ~ret.applied
               /\ ~filter_info.active
               /\ ~Rebased

\* The coercion of an interval key has failed and the join on the keys as
\* they were has been adopted, no key matching.
C16_Witness ==
    /\ AutoFixed
    /\ prepared(datasets, args).conv_error
    /\ LeftGiven # RightGiven
    /\ ret.applied
    /\ Rebased
    /\ len(original_df) > 0

C18_MetadataConsistent ==
    /\ filter_info.original_count = len(original_df)
    /\ filter_info.filtered_count = len(filtered_df)
    /\ ~filter_info.active => equals(filtered_df, original_df)

\* A join has made the original dataset longer than any dataset of the pool.
C18_Witness ==
    /\ ret.op = "join"
    /\ filter_info.active
    /\ \A n \in DOMAIN datasets : len(original_df) > len(datasets[n])
    /\ filter_info.original_count = len(original_df)
====
